---------------------------- MODULE Spec2Model ----------------------------
(***************************************************************************)
(* A model of wavlib (src/wavlib.h) and of its driver (src/test.cpp):      *)
(*   WavFile::read, WavFile::save          the RIFF/WAVE container codec   *)
(*   WavData<T>(WavFile), toWavFile        deinterleave / interleave       *)
(*   resample                              linear-interpolation resampler  *)
(*   convertSample, reencode               full-range requantizer          *)
(* Bytes are naturals 0..255, files are sequences of bytes, multi-byte     *)
(* fields are little-endian as on the x86 hosts the library is built for.  *)
(***************************************************************************)
EXTENDS Integers, Sequences, FiniteSets, TLC

VARIABLES
  pc,            \* position in the driver / in the function being run
  bytes,         \* content of the file being read
  pos,           \* get position of the std::ifstream
  good,          \* the std::ifstream converts to true (no failbit / badbit)
  foundFmt,      \* WavFile::read local
  foundData,     \* WavFile::read local
  wf,            \* the WavFile object read() fills in
  ret,           \* what read() returned: "none", "true", "false", "trap"
  pass,          \* 1: reading the input file, 2: reading back the saved file
  wf1,           \* the WavFile of pass 1, kept while pass 2 runs
  out,           \* content of the file written by save()
  T,             \* sizeof(T) of the WavData<T> instantiation
  data,          \* WavData<T> data(wf) of pass 1
  generatedWav,  \* data.toWavFile()
  data2,         \* WavData<T> built from the file read back in pass 2
  present,       \* history: tags of the sub-chunks whose tag lies in the file
  truncated,     \* history: a sub-chunk declared more bytes than remained
  input,         \* argument of resample / reencode
  new_sample_rate, \* argument of resample
  output,        \* result under construction of resample / reencode
  i,             \* loop index of resample / reencode
  index0,        \* resample: index0 of the last iteration run
  index1,        \* resample: index1 of the last iteration run
  oob,           \* a channel was indexed outside its bounds
  From,          \* reencode: the source sample type
  To             \* reencode: the target sample type

vars == <<pc, bytes, pos, good, foundFmt, foundData, wf, ret, pass, wf1, out,
          T, data, generatedWav, data2, present, truncated, input,
          new_sample_rate, output, i, index0, index1, oob, From, To>>

codecVars == <<bytes, pos, good, foundFmt, foundData, wf, ret, pass, wf1, out,
               T, data, generatedWav, data2, present, truncated>>
xformVars == <<input, new_sample_rate, output, i, index0, index1, oob, From, To>>

----------------------------------------------------------------------------
(* Bounds of the model.                                                    *)

\* sub-chunks of another tag in a generated input file
MaxExtra == 1
\* declared length of a generated data sub-chunk
MaxData == 4
\* bytes cut off the end of a generated input file
MaxCut == 4
\* body length of a generated sub-chunk that is neither fmt nor data
OtherLen == 3
\* samples per channel of a WavData given to resample
MaxSamples == 3
\* sample rates given to resample: 1..MaxRate, and 0 as a target
MaxRate == 4
\* samples per channel of a WavData given to reencode
MaxReencoded == 2

----------------------------------------------------------------------------
(* Bytes and integers.                                                     *)

Min(a, b) == IF a < b THEN a ELSE b

Pow256(k) == 256 ^ k

\* a k-byte unsigned integer as it lies in memory (little-endian)
LE(n, k) == [j \in 1..k |-> (n \div Pow256(j - 1)) % 256]

\* the unsigned integer whose bytes in memory are bs
U(bs) ==
  LET f[j \in 0..Len(bs)] ==
        IF j = 0 THEN 0 ELSE f[j - 1] + bs[j] * Pow256(j - 1)
  IN  f[Len(bs)]

\* arithmetic of uint16_t and uint32_t
U16(x) == x % 65536
U32(x) == (x % 65536) + 65536 * ((x \div 65536) % 65536)

\* memcpy of sizeof(T) bytes into a signed T
Signed(bs) ==
  LET u == U(bs)
      m == Pow256(Len(bs))
  IN  IF 2 * u >= m THEN u - m ELSE u

\* a plausible slip: the sample laid out most significant byte first
SBytesBigEndian(v, k) ==
  [j \in 1..k |-> LE((v + Pow256(k)) % Pow256(k), k)[k + 1 - j]]

\* memcpy of a signed T into sizeof(T) bytes
SBytes(v, k) == LE((v + Pow256(k)) % Pow256(k), k)

\* the four-character tags
RIFF == <<82, 73, 70, 70>>
WAVE == <<87, 65, 86, 69>>
FMT  == <<102, 109, 116, 32>>
DATA == <<100, 97, 116, 97>>
LIST == <<76, 73, 83, 84>>

----------------------------------------------------------------------------
(* std::ifstream as WavFile::read uses it.  st is [pos, good].             *)

\* file.read(buf, n): stores the bytes it gets; a short read sets failbit
Rd(st, n) ==
  LET got == IF st.good
             THEN SubSeq(bytes, st.pos + 1, Min(st.pos + n, Len(bytes)))
             ELSE << >>
  IN  [got |-> got, pos |-> st.pos + Len(got), good |-> st.good /\ Len(got) = n]

\* file.seekg(off, std::ios::cur): no effect on a failed stream; may pass the end
Seek(st, off) ==
  IF st.good THEN [pos |-> st.pos + off, good |-> TRUE]
             ELSE [pos |-> st.pos, good |-> FALSE]

\* a k-byte variable holding old after file.read stored the bytes got over it
Store(old, k, got) == U(got \o SubSeq(LE(old, k), Len(got) + 1, k))

\* a char[5] = {0} buffer after file.read stored got, compared by strncmp(.., 4)
TagIs(got, tag) == Len(got) = 4 /\ got = tag

\* raw_data.resize(n) followed by file.read(raw_data.data(), n) that got `got`
Resized(old, n) == [j \in 1..n |-> IF j <= Len(old) THEN old[j] ELSE 0]
Filled(old, n, got) ==
  [j \in 1..n |-> IF j <= Len(got) THEN got[j] ELSE Resized(old, n)[j]]

----------------------------------------------------------------------------
(* struct WavFile and struct WavData<T>.                                   *)

WavFile0 ==
  [chunk_size |-> 0, num_channels |-> 0, sample_rate |-> 0, block_align |-> 0,
   bits_per_sample |-> 0, data_size |-> 0, num_samples |-> 0, raw_data |-> << >>]

WavData0 ==
  [sample_rate |-> 0, num_channels |-> 0, bits_per_sample |-> 0,
   num_samples |-> 0, channel1 |-> << >>, channel2 |-> << >>]

----------------------------------------------------------------------------
(* Input files.  A file is the 12-byte RIFF header followed by sub-chunks  *)
(* laid out as `layout` says ("f" fmt, "d" data, "o" another tag), with    *)
(* `cut` bytes missing at its end.                                         *)

IsTag(k) == k # "o"
Cores == {<< >>, <<"f">>, <<"d">>, <<"f", "d">>, <<"d", "f">>}
Layouts ==
  {l \in UNION {[1..n -> {"f", "d", "o"}] : n \in 0..(2 + MaxExtra)} :
     /\ SelectSeq(l, IsTag) \in Cores
     /\ Len(l) - Len(SelectSeq(l, IsTag)) <= MaxExtra}
Channels == {1, 2}
BitDepths == {8, 16}
\* block_align as the file states it: 0, the frame size, twice the frame size
BlockAlignFactors == {0, 1, 2}
FmtLens == {16, 18}
\* sample rate and first payload byte of a file
Variants == {<<8000, 1>>, <<44100, 200>>}
Headers == {"ok", "badRIFF", "badWAVE"}

Payload(len, seed) == [j \in 1..len |-> (seed + 67 * (j - 1)) % 256]

FmtChunk(c) ==
  FMT \o LE(c.ext, 4) \o LE(1, 2) \o LE(c.nc, 2) \o LE(c.rate, 4)
      \o LE(c.rate * c.nc * (c.bits \div 8), 4) \o LE(c.ba, 2) \o LE(c.bits, 2)
      \o [j \in 1..(c.ext - 16) |-> 0]

DataChunk(c) == DATA \o LE(c.dlen, 4) \o Payload(c.dlen, c.seed)

OtherChunk == LIST \o LE(OtherLen, 4) \o [j \in 1..OtherLen |-> 7]

ChunkOf(kind, c) ==
  CASE kind = "f" -> FmtChunk(c)
    [] kind = "d" -> DataChunk(c)
    [] OTHER -> OtherChunk

\* the sub-chunks 1..k of the layout, concatenated
Chunks(layout, c, k) ==
  LET f[n \in 0..k] ==
        IF n = 0 THEN << >> ELSE f[n - 1] \o ChunkOf(layout[n], c)
  IN  f[k]

FileOf(layout, c, hdr, cut) ==
  LET body == Chunks(layout, c, Len(layout))
      all  == (IF hdr = "badRIFF" THEN LIST ELSE RIFF) \o LE(4 + Len(body), 4)
              \o (IF hdr = "badWAVE" THEN LIST ELSE WAVE) \o body
  IN  SubSeq(all, 1, Len(all) - Min(cut, Len(all) - 12))

\* the tags of the sub-chunks whose four tag bytes lie in the file
TagsIn(layout, c, len) ==
  LET n == Cardinality({k \in 1..Len(layout) :
                           12 + Len(Chunks(layout, c, k - 1)) + 4 <= len})
  IN  [k \in 1..n |-> layout[k]]

----------------------------------------------------------------------------
(* WavFile::read                                                           *)

Stream == [pos |-> pos, good |-> good]

\* lines 80-94: the RIFF header
ReadHeader ==
  /\ pc = "read"
  /\ LET id  == Rd(Stream, 4)
         cs  == Rd(id, 4)
         fm  == Rd(cs, 4)
     IN  IF ~TagIs(id.got, RIFF)
         THEN /\ pos' = id.pos /\ good' = id.good
              /\ ret' = "false" /\ pc' = "returned"
              /\ wf' = wf
         ELSE /\ pos' = fm.pos /\ good' = fm.good
              /\ wf' = [wf EXCEPT !.chunk_size = Store(@, 4, cs.got)]
              /\ IF TagIs(fm.got, WAVE)
                 THEN ret' = ret /\ pc' = "scan"
                 ELSE ret' = "false" /\ pc' = "returned"
  /\ UNCHANGED <<bytes, foundFmt, foundData, pass, wf1, out, T, data,
                 generatedWav, data2, present, truncated>>
  /\ UNCHANGED xformVars

\* line 97: the loop condition
LoopCond == good /\ (~foundFmt \/ ~foundData)

\* lines 99-104: the tag and the length of the next sub-chunk
IdRead == Rd(Stream, 4)
SizeRead == Rd(IdRead, 4)
subchunk_size == Store(0, 4, SizeRead.got)

\* the sub-chunk declares more bytes than the file still holds
Declares(n) == SizeRead.good /\ n > Len(bytes) - SizeRead.pos

\* lines 101-102: fewer than four bytes are left
ScanBreak ==
  /\ pc = "scan" /\ LoopCond
  /\ Len(IdRead.got) < 4
  /\ pos' = IdRead.pos /\ good' = IdRead.good
  /\ UNCHANGED <<pc, bytes, foundFmt, foundData, wf, ret, pass, wf1, out, T,
                 data, generatedWav, data2, present, truncated>>
  /\ UNCHANGED xformVars

\* lines 105-117: a "fmt " sub-chunk
ScanFmt ==
  /\ pc = "scan" /\ LoopCond
  /\ TagIs(IdRead.got, FMT)
  /\ LET af == Rd(SizeRead, 2)
         nc == Rd(af, 2)
         sr == Rd(nc, 4)
         br == Seek(sr, 4)
         ba == Rd(br, 2)
         bp == Rd(ba, 2)
         e  == IF subchunk_size > 16 THEN Seek(bp, subchunk_size - 16) ELSE bp
     IN  /\ wf' = [wf EXCEPT !.num_channels = Store(@, 2, nc.got),
                             !.sample_rate = Store(@, 4, sr.got),
                             !.block_align = Store(@, 2, ba.got),
                             !.bits_per_sample = Store(@, 2, bp.got)]
         /\ pos' = e.pos /\ good' = e.good
  /\ foundFmt' = TRUE
  /\ truncated' = (truncated \/ Declares(IF subchunk_size > 16
                                         THEN subchunk_size ELSE 16))
  /\ UNCHANGED <<pc, bytes, foundData, ret, pass, wf1, out, T, data,
                 generatedWav, data2, present>>
  /\ UNCHANGED xformVars

\* lines 118-124: a "data" sub-chunk
ScanData ==
  /\ pc = "scan" /\ LoopCond
  /\ TagIs(IdRead.got, DATA)
  /\ LET rd == Rd(SizeRead, subchunk_size)
     IN  /\ wf' = [wf EXCEPT !.data_size = subchunk_size,
                             !.raw_data = Filled(@, subchunk_size, rd.got)]
         /\ pos' = rd.pos /\ good' = rd.good
  /\ foundData' = TRUE
  /\ truncated' = (truncated \/ Declares(subchunk_size))
  /\ UNCHANGED <<pc, bytes, foundFmt, ret, pass, wf1, out, T, data,
                 generatedWav, data2, present>>
  /\ UNCHANGED xformVars

\* lines 125-128: any other sub-chunk is skipped
ScanOther ==
  /\ pc = "scan" /\ LoopCond
  /\ Len(IdRead.got) = 4
  /\ ~TagIs(IdRead.got, FMT) /\ ~TagIs(IdRead.got, DATA)
  /\ LET e == Seek(SizeRead, subchunk_size)
     IN  pos' = e.pos /\ good' = e.good
  /\ truncated' = (truncated \/ Declares(subchunk_size))
  /\ UNCHANGED <<pc, bytes, foundFmt, foundData, wf, ret, pass, wf1, out, T,
                 data, generatedWav, data2, present>>
  /\ UNCHANGED xformVars

\* lines 130-141: after the loop
ReadReturn ==
  /\ pc = "scan" /\ ~LoopCond
  /\ IF ~foundFmt \/ ~foundData
     THEN ret' = "false" /\ wf' = wf
     ELSE /\ wf.block_align # 0
          /\ ret' = "true"
          /\ wf' = [wf EXCEPT !.num_samples = wf.data_size \div wf.block_align]
  /\ pc' = "returned"
  /\ UNCHANGED <<bytes, pos, good, foundFmt, foundData, pass, wf1, out, T,
                 data, generatedWav, data2, present, truncated>>
  /\ UNCHANGED xformVars

\* line 140 with block_align == 0: an integer division by zero is undefined;
\* the build either traps (SIGFPE on x86) or yields a quotient of 0 (AArch64)
ReadDivideByZero ==
  /\ pc = "scan" /\ ~LoopCond
  /\ foundFmt /\ foundData /\ wf.block_align = 0
  /\ \/ ret' = "trap" /\ wf' = wf
     \/ ret' = "true" /\ wf' = [wf EXCEPT !.num_samples = 0]
  /\ pc' = "returned"
  /\ UNCHANGED <<bytes, pos, good, foundFmt, foundData, pass, wf1, out, T,
                 data, generatedWav, data2, present, truncated>>
  /\ UNCHANGED xformVars

read == \/ ReadHeader \/ ScanBreak \/ ScanFmt \/ ScanData \/ ScanOther
        \/ ReadReturn \/ ReadDivideByZero

----------------------------------------------------------------------------
(* WavFile::save                                                           *)

\* a plausible slip at line 163: the bit depth taken for the byte width
bytesPerSampleInBits(w) == U16(w.bits_per_sample)

\* line 163
bytesPerSample(w) == U16(w.bits_per_sample \div 8)

\* lines 153-171: the bytes save() writes for the WavFile w
SaveBytes(w) ==
  LET localBlockAlign == U16(w.num_channels * bytesPerSample(w))
      byteRate        == U32(w.sample_rate * localBlockAlign)
  IN  RIFF \o LE(w.chunk_size, 4) \o WAVE
      \o FMT \o LE(16, 4) \o LE(1, 2) \o LE(w.num_channels, 2)
      \o LE(w.sample_rate, 4) \o LE(byteRate, 4) \o LE(localBlockAlign, 2)
      \o LE(w.bits_per_sample, 2)
      \o DATA \o LE(w.data_size, 4) \o SubSeq(w.raw_data, 1, w.data_size)

\* wf.save(path) on the WavFile a successful read() returned
save ==
  /\ pc = "returned" /\ pass = 1 /\ ret = "true"
  /\ out' = SaveBytes(wf)
  /\ pc' = "saved"
  /\ UNCHANGED <<bytes, pos, good, foundFmt, foundData, wf, ret, pass, wf1, T,
                 data, generatedWav, data2, present, truncated>>
  /\ UNCHANGED xformVars

\* a fresh WavFile reads the saved file back (lines 73, 96: a new stream,
\* the locals initialised)
Reopen ==
  /\ pc = "saved"
  /\ wf1' = wf /\ wf' = WavFile0
  /\ bytes' = out /\ pos' = 0 /\ good' = TRUE
  /\ foundFmt' = FALSE /\ foundData' = FALSE
  /\ ret' = "none" /\ pass' = 2 /\ pc' = "read"
  /\ UNCHANGED <<out, T, data, generatedWav, data2, present, truncated>>
  /\ UNCHANGED xformVars

----------------------------------------------------------------------------
(* WavData<T>::WavData(const WavFile &) and WavData<T>::toWavFile.         *)
(* t is sizeof(T); a read outside a buffer is undefined and yields g.      *)

SampleSizes == {1, 2}
OobBytes == {0, 255}
OobSamples == {0, -1}

\* std::memcpy(&x, buf + off, t): the t bytes at offset off of buf
Mem(buf, off, t, g) ==
  [j \in 1..t |-> IF off + j <= Len(buf) THEN buf[off + j] ELSE g]

\* lines 211-223 read past the end of wf.raw_data
SplitReadsPast(w, t) ==
  /\ w.bits_per_sample = 8 * t
  /\ w.num_samples > 0
  /\ (w.num_samples - 1) * w.block_align
       + (IF w.num_channels = 2 THEN 2 * t ELSE t) > Len(w.raw_data)

\* lines 193-224
WavDataOf(w, t, g) ==
  LET hdr == [WavData0 EXCEPT !.sample_rate = w.sample_rate,
                              !.num_channels = w.num_channels,
                              !.bits_per_sample = w.bits_per_sample,
                              !.num_samples = w.num_samples]
      n == w.num_samples
      blockAlign == w.block_align
  IN  IF w.bits_per_sample # 8 * t
      THEN hdr
      ELSE [hdr EXCEPT
              !.channel1 = [k \in 1..n |->
                  Signed(Mem(w.raw_data, (k - 1) * blockAlign, t, g))],
              !.channel2 = IF w.num_channels = 2
                  THEN [k \in 1..n |->
                          Signed(Mem(w.raw_data, (k - 1) * blockAlign + t, t, g))]
                  ELSE << >>]

\* channel[k - 1] of a std::vector<T>; past its end the read is undefined
At(channel, k, g) == IF k <= Len(channel) THEN channel[k] ELSE g

\* std::memcpy(buf + off, &x, t); bytes past the end of buf land outside it
Put(buf, off, bs) ==
  [j \in 1..Len(buf) |->
     IF off < j /\ j <= off + Len(bs) THEN bs[j - off] ELSE buf[j]]

\* lines 238-249 index a channel past its end or write past wf.raw_data
JoinGoesPast(d, t) ==
  LET ba == U16(d.num_channels * (d.bits_per_sample \div 8))
      n  == d.num_samples
  IN  /\ n > 0
      /\ \/ Len(d.channel1) < n
         \/ d.num_channels = 2 /\ Len(d.channel2) < n
         \/ (n - 1) * ba + (IF d.num_channels = 2 THEN 2 * t ELSE t)
              > U32(n * ba)

\* lines 227-252
toWavFile(d, t, g) ==
  LET ba == U16(d.num_channels * (d.bits_per_sample \div 8))
      n  == d.num_samples
      ds == U32(n * ba)
      W[k \in 0..n] ==
        IF k = 0 THEN [j \in 1..ds |-> 0]
        ELSE LET left == Put(W[k - 1], (k - 1) * ba,
                             SBytes(At(d.channel1, k, g), t))
             IN  IF d.num_channels = 2
                 THEN Put(left, (k - 1) * ba + t,
                          SBytes(At(d.channel2, k, g), t))
                 ELSE left
  IN  [chunk_size |-> U32(36 + ds), num_channels |-> d.num_channels,
       sample_rate |-> d.sample_rate, block_align |-> ba,
       bits_per_sample |-> d.bits_per_sample, data_size |-> ds,
       num_samples |-> n, raw_data |-> W[n]]

\* test.cpp line 22: wav::WavData<T> data(wf) on the WavFile of the input file
Split ==
  /\ pc = "returned" /\ pass = 2 /\ ret # "trap"
  /\ \E t \in SampleSizes, g \in OobBytes :
       /\ ~SplitReadsPast(wf1, t) => g = 0
       /\ T' = t
       /\ data' = WavDataOf(wf1, t, g)
       /\ oob' = SplitReadsPast(wf1, t)
  /\ pc' = "split"
  /\ UNCHANGED <<bytes, pos, good, foundFmt, foundData, wf, ret, pass, wf1,
                 out, generatedWav, data2, present, truncated>>
  /\ UNCHANGED <<input, new_sample_rate, output, i, index0, index1, From, To>>

\* test.cpp line 25: data.toWavFile()
Join ==
  /\ pc = "split"
  /\ \E g \in OobSamples :
       /\ ~JoinGoesPast(data, T) => g = 0
       /\ generatedWav' = toWavFile(data, T, g)
       /\ oob' = (oob \/ JoinGoesPast(data, T))
  /\ pc' = "joined"
  /\ UNCHANGED <<bytes, pos, good, foundFmt, foundData, wf, ret, pass, wf1,
                 out, T, data, data2, present, truncated>>
  /\ UNCHANGED <<input, new_sample_rate, output, i, index0, index1, From, To>>

\* the same WavData<T> built from the file that was saved and read back
Split2 ==
  /\ pc = "joined" /\ ret = "true"
  /\ \E g \in OobBytes :
       /\ ~SplitReadsPast(wf, T) => g = 0
       /\ data2' = WavDataOf(wf, T, g)
       /\ oob' = (oob \/ SplitReadsPast(wf, T))
  /\ pc' = "done"
  /\ UNCHANGED <<bytes, pos, good, foundFmt, foundData, wf, ret, pass, wf1,
                 out, T, data, generatedWav, present, truncated>>
  /\ UNCHANGED <<input, new_sample_rate, output, i, index0, index1, From, To>>

----------------------------------------------------------------------------

Init ==
  \E layout \in Layouts, hdr \in Headers, cut \in 0..MaxCut,
     nc \in Channels, bits \in BitDepths, baf \in BlockAlignFactors,
     ext \in FmtLens, v \in Variants, dlen \in 0..MaxData :
    LET has(k) == \E n \in 1..Len(layout) : layout[n] = k
        c == [nc |-> nc, bits |-> bits, ba |-> baf * nc * (bits \div 8),
              ext |-> ext, rate |-> v[1], dlen |-> dlen, seed |-> v[2]]
    IN  /\ hdr # "ok" => layout = << >> /\ cut = 0
        /\ ~has("f") => nc = 1 /\ bits = 8 /\ baf = 0 /\ ext = 16
        /\ ~has("d") => dlen = 0
        /\ ~has("f") /\ ~has("d") => v[1] = 8000
        /\ bytes = FileOf(layout, c, hdr, cut)
        /\ present = TagsIn(layout, c, Len(bytes))
        /\ pc = "read" /\ pos = 0 /\ good = TRUE
        /\ foundFmt = FALSE /\ foundData = FALSE
        /\ wf = WavFile0 /\ ret = "none" /\ pass = 1 /\ wf1 = WavFile0
        /\ out = << >> /\ T = 0
        /\ data = WavData0 /\ generatedWav = WavFile0 /\ data2 = WavData0
        /\ truncated = FALSE
        /\ input = WavData0 /\ new_sample_rate = 0 /\ output = WavData0
        /\ i = 0 /\ index0 = 0 /\ index1 = 0 /\ oob = FALSE
        /\ From = 0 /\ To = 0

Next == read \/ save \/ Reopen \/ Split \/ Join \/ Split2

Spec == Init /\ [][Next]_vars

----------------------------------------------------------------------------
(* resample.  The double arithmetic of lines 270-284 is carried out on     *)
(* exact fractions: ratio is r / sample_rate, src_index is                 *)
(* i * sample_rate / r and frac is its fractional part, a multiple of 1/r. *)

\* std::round of num / den, den > 0: halves away from zero
Round(num, den) ==
  IF num >= 0 THEN (2 * num + den) \div (2 * den)
              ELSE -((2 * (-num) + den) \div (2 * den))

\* lines 270-271: static_cast<uint32_t>(input.num_samples * ratio)
newNumSamples(d, r) == (d.num_samples * r) \div d.sample_rate

\* a plausible slip at line 279: src_index rounded to the nearest index
index0Nearest(d, r, k) == Round(k * d.sample_rate, r)

\* lines 278-279: floor(i / ratio)
index0Of(d, r, k) == (k * d.sample_rate) \div r

\* a plausible slip at line 280: index0 + 1 without the clamp
index1Unclamped(d, i0) == i0 + 1

\* line 280
index1Of(d, i0) == IF i0 + 1 < d.num_samples THEN i0 + 1 ELSE i0

\* line 281: frac, in units of 1 / r
fracOf(d, r, k) == (k * d.sample_rate) % r

\* a plausible slip at line 284: the two weights exchanged
interpSwapped(s0, s1, fr, r) == Round(fr * s0 + (r - fr) * s1, r)

\* lines 284-285: round((1.0 - frac) * s0 + frac * s1)
interp(s0, s1, fr, r) == Round((r - fr) * s0 + fr * s1, r)

\* lines 268-275
ResampleStart ==
  /\ pc = "resample"
  /\ LET n == newNumSamples(input, new_sample_rate)
     IN  output' = [input EXCEPT
                      !.sample_rate = new_sample_rate,
                      !.num_samples = n,
                      !.channel1 = Resized(@, n),
                      !.channel2 = IF input.num_channels = 2
                                   THEN Resized(@, n) ELSE @]
  /\ i' = 0
  /\ pc' = "loop"
  /\ UNCHANGED <<input, new_sample_rate, index0, index1, oob, From, To>>
  /\ UNCHANGED codecVars

\* lines 276-293: one iteration of the loop
ResampleStep ==
  /\ pc = "loop" /\ i < output.num_samples
  /\ LET i0 == index0Of(input, new_sample_rate, i)
         i1 == index1Of(input, i0)
         fr == fracOf(input, new_sample_rate, i)
         past == \/ i1 + 1 > Len(input.channel1)
                 \/ input.num_channels = 2 /\ i1 + 1 > Len(input.channel2)
     IN  \E g \in OobSamples :
           /\ ~past => g = 0
           /\ output' = [output EXCEPT
                !.channel1[i + 1] =
                   interp(At(input.channel1, i0 + 1, g),
                          At(input.channel1, i1 + 1, g), fr, new_sample_rate),
                !.channel2 =
                   IF input.num_channels = 2
                   THEN [@ EXCEPT ![i + 1] =
                          interp(At(input.channel2, i0 + 1, g),
                                 At(input.channel2, i1 + 1, g),
                                 fr, new_sample_rate)]
                   ELSE @]
           /\ index0' = i0 /\ index1' = i1
           /\ oob' = (oob \/ past)
  /\ i' = i + 1
  /\ UNCHANGED <<pc, input, new_sample_rate, From, To>>
  /\ UNCHANGED codecVars

\* line 294
ResampleReturn ==
  /\ pc = "loop" /\ i >= output.num_samples
  /\ pc' = "resampled"
  /\ UNCHANGED xformVars
  /\ UNCHANGED codecVars

resample == ResampleStart \/ ResampleStep \/ ResampleReturn

\* the sample values of the WavData given to resample
SampleValues == {-3, 2}

WavDatas(maxlen, values1, values2) ==
  UNION {{[sample_rate |-> 0, num_channels |-> nc, bits_per_sample |-> 0,
           num_samples |-> n, channel1 |-> c1, channel2 |-> c2] :
             c1 \in [1..n -> values1],
             c2 \in IF nc = 2 THEN [1..n -> values2] ELSE {<< >>}} :
         nc \in Channels, n \in 0..maxlen}

InitIdle ==
  /\ bytes = << >> /\ pos = 0 /\ good = TRUE
  /\ foundFmt = FALSE /\ foundData = FALSE
  /\ wf = WavFile0 /\ ret = "none" /\ pass = 1 /\ wf1 = WavFile0
  /\ out = << >> /\ T = 0
  /\ data = WavData0 /\ generatedWav = WavFile0 /\ data2 = WavData0
  /\ present = << >> /\ truncated = FALSE

InitResample ==
  /\ InitIdle
  /\ pc = "resample"
  /\ \E d \in WavDatas(MaxSamples, SampleValues, SampleValues),
        rate \in 1..MaxRate :
       input = [d EXCEPT !.sample_rate = rate, !.bits_per_sample = 16]
  /\ new_sample_rate \in 0..MaxRate
  /\ output = WavData0 /\ i = 0 /\ index0 = 0 /\ index1 = 0 /\ oob = FALSE
  /\ From = 0 /\ To = 0

SpecResample == InitResample /\ [][resample]_vars

----------------------------------------------------------------------------
(* convertSample and reencode.  A sample type is [bits, signed].           *)

Widths == {8, 16}
Types == [bits : Widths, signed : BOOLEAN]

\* std::numeric_limits<X>::min() and max()
MinOf(X) == IF X.signed THEN -(2 ^ (X.bits - 1)) ELSE 0
MaxOf(X) == IF X.signed THEN 2 ^ (X.bits - 1) - 1 ELSE 2 ^ X.bits - 1

\* lines 305-314, 315-324: the ranges convertSample maps between
fromMin(F) == IF F.signed THEN MinOf(F) ELSE 0
fromMax(F) == MaxOf(F)
toMin(X) == IF X.signed THEN MinOf(X) ELSE 0

\* a plausible slip at line 323: the unsigned maximum taken from the signed type
toMaxSigned(X) == 2 ^ (X.bits - 1) - 1

toMax(X) == MaxOf(X)

\* lines 303-327, on exact fractions: normalized is
\* (sample - fromMin) / (fromMax - fromMin)
convertSample(F, X, sample) ==
  LET den == fromMax(F) - fromMin(F)
      num == (sample - fromMin(F)) * (toMax(X) - toMin(X)) + toMin(X) * den
  IN  Round(num, den)

\* lines 336-343
ReencodeStart ==
  /\ pc = "reencode"
  /\ output' = [WavData0 EXCEPT
                  !.sample_rate = input.sample_rate,
                  !.num_channels = input.num_channels,
                  !.num_samples = input.num_samples,
                  !.bits_per_sample = U16(To.bits),
                  !.channel1 = Resized(@, input.num_samples),
                  !.channel2 = IF input.num_channels = 2
                               THEN Resized(@, input.num_samples) ELSE @]
  /\ i' = 0
  /\ pc' = "convert"
  /\ UNCHANGED <<input, new_sample_rate, index0, index1, oob, From, To>>
  /\ UNCHANGED codecVars

\* lines 344-349: one iteration of the loop
ReencodeStep ==
  /\ pc = "convert" /\ i < input.num_samples
  /\ output' = [output EXCEPT
       !.channel1[i + 1] = convertSample(From, To, input.channel1[i + 1]),
       !.channel2 =
          IF input.num_channels = 2
          THEN [@ EXCEPT ![i + 1] = convertSample(From, To, input.channel2[i + 1])]
          ELSE @]
  /\ i' = i + 1
  /\ UNCHANGED <<pc, input, new_sample_rate, index0, index1, oob, From, To>>
  /\ UNCHANGED codecVars

\* line 350
ReencodeReturn ==
  /\ pc = "convert" /\ i >= input.num_samples
  /\ pc' = "reencoded"
  /\ UNCHANGED xformVars
  /\ UNCHANGED codecVars

reencode == ReencodeStart \/ ReencodeStep \/ ReencodeReturn

\* the pairs of types whose products stay within the integers of the checker
TypePairs == {p \in Types \X Types : ~(p[1].bits = 16 /\ p[2].bits = 16)}

InitReencode ==
  /\ InitIdle
  /\ pc = "reencode"
  /\ \E p \in TypePairs :
       /\ From = p[1] /\ To = p[2]
       /\ \E d \in WavDatas(MaxReencoded,
                            {MinOf(p[1]), MaxOf(p[1]), 0, 100},
                            {MinOf(p[1]), MaxOf(p[1])}) :
            input = [d EXCEPT !.sample_rate = 8000,
                              !.bits_per_sample = p[1].bits]
  /\ new_sample_rate = 0
  /\ output = WavData0 /\ i = 0 /\ index0 = 0 /\ index1 = 0 /\ oob = FALSE

SpecReencode == InitReencode /\ [][reencode]_vars

----------------------------------------------------------------------------
(* The container codec and the splitter / joiner: properties.              *)

\* the input file starts with RIFF, a chunk_size and WAVE
HeaderOk ==
  /\ Len(bytes) >= 12
  /\ SubSeq(bytes, 1, 4) = RIFF
  /\ SubSeq(bytes, 9, 12) = WAVE

Has(tags, k) == \E n \in 1..Len(tags) : tags[n] = k

\* C1: for a file that starts with RIFF, chunk_size, WAVE, read() succeeds
\* exactly when a fmt and a data sub-chunk both occur in the file, in either
\* order and with other sub-chunks around them; otherwise it returns false.
C1_SucceedsIffBothChunks ==
  (pc = "returned" /\ pass = 1 /\ HeaderOk)
    => (ret = "true" <=> (Has(present, "f") /\ Has(present, "d")))

\* C2: the chunk_size save() writes at offset 4 is 36 + data_size, and the
\* block_align and byte_rate it writes are recomputed from num_channels,
\* bits_per_sample and sample_rate.  (Stated of the files read without the
\* undefined division of line 140, as are C3 and C4.)
C2_SaveRecomputesSizes ==
  (pc = "saved" /\ wf.block_align # 0) =>
    /\ U(SubSeq(out, 5, 8)) = 36 + wf.data_size
    /\ U(SubSeq(out, 33, 34)) = wf.num_channels * (wf.bits_per_sample \div 8)
    /\ U(SubSeq(out, 29, 32)) =
         wf.sample_rate * wf.num_channels * (wf.bits_per_sample \div 8)

\* C3: when a sub-chunk declares more bytes than the file still holds,
\* read() fails; it never succeeds with raw_data padded with zeros.
C3_TruncatedIsFatal ==
  (pc = "returned" /\ pass = 1 /\ truncated /\ wf.block_align # 0)
    => ret = "false"

\* C4: when bits_per_sample differs from 8 * sizeof(T), the constructor
\* yields no WavData with num_samples > 0 and an empty channel1.
C4_MismatchYieldsNoChannelSet ==
  (pc \in {"split", "joined", "done"} /\ wf1.bits_per_sample # 8 * T
     /\ wf1.block_align # 0)
    => ~(data.num_samples > 0 /\ data.channel1 = << >>)

\* a canonical container for WavData<T>
Canonical(w, t) ==
  /\ w.num_channels \in {1, 2}
  /\ w.bits_per_sample = 8 * t
  /\ w.block_align = w.num_channels * (w.bits_per_sample \div 8)
  /\ w.data_size = w.num_samples * w.block_align
  /\ Len(w.raw_data) = w.data_size

\* C5: for a canonical container c, WavData<T>(c).toWavFile() has the
\* raw_data, block_align and data_size of c.
C5_JoinSplitIsIdentity ==
  (pc \in {"joined", "done"} /\ Canonical(wf1, T))
    => /\ generatedWav.raw_data = wf1.raw_data
       /\ generatedWav.block_align = wf1.block_align
       /\ generatedWav.data_size = wf1.data_size

\* a stereo 16-bit frame went through the constructor and toWavFile
C5_Witness ==
  /\ pc = "joined" /\ Canonical(wf1, T)
  /\ T = 2 /\ wf1.num_channels = 2 /\ wf1.num_samples = 1
  /\ data.channel2[1] < 0 /\ data.channel2[1] # data.channel1[1]

\* a valid mono or stereo container for WavData<T>: the invariants of the
\* container hold of what read() returned
Valid(w, t) ==
  /\ w.num_channels \in {1, 2}
  /\ w.bits_per_sample = 8 * t
  /\ w.block_align = w.num_channels * (w.bits_per_sample \div 8)

\* C6: for a file read() accepts as a valid mono or stereo container of the
\* bit depth of T, the file save() writes is accepted too and its WavData<T>
\* equals that of the input: sample_rate, num_channels, bits_per_sample,
\* num_samples, channel1 and channel2.
C6_SaveReadKeepsSamples ==
  /\ (pc = "joined" /\ Valid(wf1, T)) => ret = "true"
  /\ (pc = "done" /\ Valid(wf1, T)) => data2 = data

\* data before fmt, another sub-chunk between them, an 18-byte fmt body
C6_Witness ==
  /\ pc = "done" /\ Valid(wf1, T)
  /\ present = <<"d", "o", "f">>
  /\ wf1.chunk_size = 46 + OtherLen + wf1.data_size
  /\ wf1.num_channels = 2 /\ data.num_samples = 2
  /\ data2.channel2 = data.channel2 /\ data.channel1[2] < 0

----------------------------------------------------------------------------
(* The resampler and the requantizer: properties.                          *)

\* C7: resample(x, x.sample_rate) returns num_samples, channel1, channel2,
\* sample_rate, num_channels and bits_per_sample of x unchanged.
C7_ResampleSameRateIsIdentity ==
  (pc = "resampled" /\ new_sample_rate = input.sample_rate) => output = input

\* a stereo input with differing neighbours was resampled at its own rate
C7_Witness ==
  /\ pc = "resampled" /\ new_sample_rate = input.sample_rate
  /\ input.num_channels = 2 /\ input.num_samples = MaxSamples
  /\ input.channel1[1] # input.channel1[2]
  /\ input.channel2[2] # input.channel2[3]

\* C8: in every iteration index0 and index1 are at most num_samples - 1 and
\* no channel is read outside its bounds; an input of 0 samples gives an
\* output of 0 samples.
C8_ResampleStaysInBounds ==
  /\ (pc \in {"loop", "resampled"} /\ i > 0)
       => /\ index0 <= input.num_samples - 1
          /\ index1 <= input.num_samples - 1
          /\ index0 = ((i - 1) * input.sample_rate) \div new_sample_rate
  /\ ~oob
  /\ (pc \in {"loop", "resampled"} /\ input.num_samples = 0)
       => output.num_samples = 0 /\ i = 0
  /\ pc \in {"loop", "resampled"}
       => output.num_samples
            = (input.num_samples * new_sample_rate) \div input.sample_rate

\* the last iteration of an upsampling read the last input sample twice
C8_Witness ==
  /\ pc = "resampled" /\ new_sample_rate > input.sample_rate
  /\ input.num_samples = MaxSamples /\ i = output.num_samples
  /\ index0 = input.num_samples - 1 /\ index1 = index0

\* the last output sample repeats the last input sample, on both channels
LastRepeatsLast ==
  /\ output.channel1[output.num_samples] = input.channel1[input.num_samples]
  /\ input.num_channels = 2
       => output.channel2[output.num_samples] = input.channel2[input.num_samples]

\* C10 as stated: whenever resample produces a sample, the last one is
\* computed with index1 = index0 and repeats the last input sample.
C10_LastOutputRepeatsLastInput ==
  (pc = "resampled" /\ output.num_samples >= 1)
    => index1 = index0 /\ LastRepeatsLast

\* C10 amended: the last output sample is computed with index1 = index0
\* exactly when its index0 is num_samples - 1, and then it repeats the last
\* input sample; this is the case whenever the target rate is a multiple of
\* the source rate.
C10_LastOutputRepeatsLastInputAtMultiples ==
  (pc = "resampled" /\ output.num_samples >= 1)
    => /\ index1 = index0 <=> index0 = input.num_samples - 1
       /\ index1 = index0 => LastRepeatsLast
       /\ new_sample_rate % input.sample_rate = 0 => index1 = index0

\* an upsampling by an integer factor ended on the clamped index
C10_Witness ==
  /\ pc = "resampled" /\ output.num_samples >= 1
  /\ new_sample_rate = 2 * input.sample_rate
  /\ input.num_samples = MaxSamples
  /\ index1 = index0 /\ LastRepeatsLast
  /\ input.channel1[input.num_samples] # input.channel1[input.num_samples - 1]

\* C9: when From and To are both signed or both unsigned and To is wider,
\* convertSample takes the minimum of From to the minimum of To and the
\* maximum of From to the maximum of To.
C9_RangeEndsMapToRangeEnds ==
  (pc \in {"convert", "reencoded"} /\ From.signed = To.signed
     /\ To.bits > From.bits)
    => \A k \in 1..i :
         /\ input.channel1[k] = MinOf(From) => output.channel1[k] = MinOf(To)
         /\ input.channel1[k] = MaxOf(From) => output.channel1[k] = MaxOf(To)
         /\ input.num_channels = 2 =>
              /\ input.channel2[k] = MinOf(From)
                   => output.channel2[k] = MinOf(To)
              /\ input.channel2[k] = MaxOf(From)
                   => output.channel2[k] = MaxOf(To)

\* an unsigned 8-bit minimum and maximum were reencoded to 16 bits
C9_Witness ==
  /\ pc = "reencoded" /\ ~From.signed /\ ~To.signed
  /\ From.bits = 8 /\ To.bits = 16
  /\ input.num_samples = 2
  /\ input.channel1 = <<MinOf(From), MaxOf(From)>>
  /\ output.channel1 = <<0, 65535>>

=============================================================================
